---- MODULE Spec2Model ----
(***************************************************************************)
(* A model of the Tensor class of src/src/Tensor.ts (the second, final     *)
(* design, lines 243-531): a flat buffer with a native shape/stride/size,  *)
(* an optional broadcast view installed by expand and removed by unexpand, *)
(* and the iteration, reduction and display operations that read through   *)
(* it.  One tensor is constructed and then operated on; every operation    *)
(* records its call and what it returned or delivered to its callback.     *)
(*                                                                         *)
(* Sequences are 1-based here and 0-based in the source: the source's      *)
(* x[i] is x[i + 1] below.  A JavaScript value that may be null is a       *)
(* sequence of length 0 (null) or 1 (the value).  A number that may be NaN *)
(* or undefined is a record [k, v] with k in {"num", "nan", "undefined"}.  *)
(***************************************************************************)
EXTENDS Integers, Sequences, FiniteSets, TLC

\* ------------------------------------------------------------- bounds

\* Largest rank of a constructed tensor; expand targets have up to one more.
MaxRank == 2
\* Largest extent offered to the constructor.
MaxExtent == 3
\* Largest extent offered to expand.
MaxStretch == 2
\* Longest data buffer offered to the constructor.
MaxData == 6
\* Largest logical size on which the iteration operations are explored.
MaxIter == 8
\* Width of the elements of a Uint32Array.  It is 32 in the source; TLC's
\* integers are 32 bits wide themselves, so the width is reduced and the
\* conversion x mod 2^w is kept.  The width is wide enough that no stride of
\* a view of positive extents within MaxIter wraps.
UintBits == 4

\* ------------------------------------------------------------- values

\* A function on 1..n as the sequence it is (the form every array is kept in).
Tuple(f) == SubSeq(f, 1, Len(f))

Null == <<>>
Some(x) == <<x>>

Num(n) == [k |-> "num", v |-> n]
NaN == [k |-> "nan", v |-> 0]
Undefined == [k |-> "undefined", v |-> 0]

\* Storing into a Float64Array converts with ToNumber: undefined becomes NaN.
ToFloat(x) == IF x.k = "num" THEN x ELSE NaN

\* buf[index] of a typed array: undefined outside 0..length-1.
Read(buf, index) ==
  IF index >= 0 /\ index < Len(buf) THEN buf[index + 1] ELSE Undefined

\* new Uint32Array(dims): each element is converted modulo 2^width.
ToUint32(x) == x % (2 ^ UintBits)

\* new Uint32Array(len): zero-filled.
ZeroArray(len) == Tuple([i \in 1..len |-> 0])

\* The reducers and mappers passed by the callers of this model, in pairs.
Callbacks == {[reducer |-> "add", mapper |-> "id"],
              [reducer |-> "sub", mapper |-> "scale"]}

reducer(name, acc, val) ==
  IF acc.k = "num" /\ val.k = "num"
  THEN IF name = "add" THEN Num(acc.v + val.v) ELSE Num(acc.v - val.v)
  ELSE NaN

mapper(name, acc, count) ==
  IF name = "id" THEN acc
  ELSE IF acc.k = "num" THEN Num(acc.v * count) ELSE NaN

\* ------------------------------------------------------- static helpers

\* SetStrides filling from the first dimension to the last, as the first design's
\* constructor did (strides[0] = 1).
RECURSIVE SetStridesFirstLoop(_, _, _, _)
SetStridesFirstLoop(strides, shape, i, stride) ==
  IF i >= Len(shape) THEN [strides |-> strides, ret |-> stride]
  ELSE SetStridesFirstLoop([strides EXCEPT ![i + 1] = stride % (2 ^ UintBits)],
                           shape, i + 1, stride * shape[i + 1])

SetStridesFirst(strides, shape) == SetStridesFirstLoop(strides, shape, 0, 1)

\* Tensor.SetStrides: fills strides from the last dimension to the first and
\* returns the running product; strides is a Uint32Array.
RECURSIVE SetStridesLoop(_, _, _, _)
SetStridesLoop(strides, shape, i, stride) ==
  IF i < 0 THEN [strides |-> strides, ret |-> stride]
  ELSE SetStridesLoop([strides EXCEPT ![i + 1] = ToUint32(stride)],
                      shape, i - 1, stride * shape[i + 1])

SetStrides(strides, shape) == SetStridesLoop(strides, shape, Len(shape) - 1, 1)

\* Tensor.assertDim: the error it throws, or "none".
assertDim(dim, len) ==
  IF dim < 0 THEN "InvalidDimension"
  ELSE IF dim >= len THEN "DimensionOutOfRange"
  ELSE "none"

\* The constructor: the tensor built, or the error thrown.
NewTensor(shape, buf) ==
  LET s == SetStrides(ZeroArray(Len(shape)), shape)
  IN IF Len(buf) # s.ret
     THEN [err |-> "ShapeMismatch", data |-> <<>>, dataSize |-> 0,
           dataShape |-> <<>>, dataStrides |-> <<>>]
     ELSE [err |-> "none", data |-> buf, dataSize |-> Len(buf),
           dataShape |-> shape, dataStrides |-> s.strides]

\* -------------------------------------------------------------- state

VARIABLES
  alive,        \* a tensor has been constructed
  data,         \* readonly data
  dataShape,    \* readonly dataShape
  dataStrides,  \* readonly dataStrides
  dataSize,     \* readonly dataSize
  _shape,       \* the view's shape, or null
  _strides,     \* the view's strides, or null
  _size,        \* the view's size, or null
  call,         \* the last call: its name and arguments
  ret           \* what the last call threw, returned and passed to its callback

vars == <<alive, data, dataShape, dataStrides, dataSize,
          _shape, _strides, _size, call, ret>>

tensor == <<alive, data, dataShape, dataStrides, dataSize>>
view == <<_shape, _strides, _size>>

\* The accessors.
shape == IF _shape # Null THEN _shape[1] ELSE dataShape
strides == IF _strides # Null THEN _strides[1] ELSE dataStrides
size == IF _size # Null /\ _size[1] # 0 THEN _size[1] ELSE dataSize

NoCall == [op |-> "none", shape |-> <<>>, len |-> 0, dim |-> 0, keepdim |-> FALSE,
           reducer |-> "none", mapper |-> "none", index |-> 0, indices |-> <<>>]
NoRet == [err |-> "none", visits |-> <<>>, reads |-> <<>>, out |-> Null,
          nested |-> <<>>, ticks |-> <<>>, index |-> 0]

\* ------------------------------------------------------------- inputs

RECURSIVE SeqsUpTo(_, _)
SeqsUpTo(S, n) ==
  IF n = 0 THEN {<<>>}
  ELSE LET shorter == SeqsUpTo(S, n - 1)
       IN shorter \cup {Append(s, x) : s \in {t \in shorter : Len(t) = n - 1}, x \in S}

\* Shapes offered to the constructor: length >= 1, positive extents.
Shapes == {s \in SeqsUpTo(1..MaxExtent, MaxRank) : Len(s) >= 1}

\* Buffers offered to the constructor: 1, 2, ..., n.
Buffer(n) == Tuple([i \in 1..n |-> Num(i)])

\* Arguments offered to expand: integers, with at most one extent that is zero
\* or negative (so that every product of a wrapped extent stays exact).
NonPositives(t) == {i \in 1..Len(t) : t[i] < 1}
Targets ==
  {t \in SeqsUpTo((-1)..MaxStretch, MaxRank + 1) :
     Len(t) >= 1 /\ Cardinality(NonPositives(t)) <= 1}

RECURSIVE Product(_)
Product(s) == IF s = <<>> THEN 1 ELSE s[1] * Product(Tail(s))

PositiveTargets ==
  {t \in Targets : NonPositives(t) = {} /\ Product(t) <= MaxIter}

\* ------------------------------------------------------------ actions

Init ==
  /\ alive = FALSE
  /\ data = <<>>
  /\ dataShape = <<>>
  /\ dataStrides = <<>>
  /\ dataSize = 0
  /\ _shape = Null
  /\ _strides = Null
  /\ _size = Null
  /\ call = NoCall
  /\ ret = NoRet

\* new Tensor(shape, data)
Construct(s, n) ==
  /\ ~alive
  /\ LET t == NewTensor(s, Buffer(n))
     IN /\ call' = [NoCall EXCEPT !.op = "construct", !.shape = s, !.len = n]
        /\ ret' = [NoRet EXCEPT !.err = t.err]
        /\ IF t.err = "none"
           THEN /\ alive' = TRUE
                /\ data' = t.data
                /\ dataShape' = t.dataShape
                /\ dataStrides' = t.dataStrides
                /\ dataSize' = t.dataSize
           ELSE UNCHANGED tensor
        /\ UNCHANGED view

\* The first error expand's loop throws for i = 1..len, or "none".
RECURSIVE expandCheck(_, _, _)
expandCheck(newShape, oldShape, i) ==
  IF i > Len(newShape) THEN "none"
  ELSE LET shapeLen == Len(oldShape)
           len == Len(newShape)
           old == IF shapeLen - i >= 0 /\ oldShape[shapeLen - i + 1] # 0
                  THEN oldShape[shapeLen - i + 1] ELSE 1
           new == newShape[len - i + 1]
       IN IF old # 1 /\ new # old THEN "IncompatibleExpand"
          ELSE IF new < 1 THEN "InvalidExpandSize"
          ELSE expandCheck(newShape, oldShape, i + 1)

\* expand(...dims)
Expand(dims) ==
  /\ alive
  /\ LET len == Len(dims)
         newShape == Tuple([i \in 1..len |-> ToUint32(dims[i])])
         err == expandCheck(newShape, dataShape, 1)
         s == SetStrides(ZeroArray(len), newShape)
     IN /\ call' = [NoCall EXCEPT !.op = "expand", !.shape = dims]
        /\ ret' = [NoRet EXCEPT !.err = err]
        /\ IF err = "none"
           THEN /\ _size' = Some(s.ret)
                /\ _shape' = Some(newShape)
                /\ _strides' = Some(s.strides)
           ELSE UNCHANGED view
  /\ UNCHANGED tensor

\* unexpand()
Unexpand ==
  /\ alive
  /\ _size' = Null
  /\ _shape' = Null
  /\ _strides' = Null
  /\ call' = [NoCall EXCEPT !.op = "unexpand"]
  /\ ret' = NoRet
  /\ UNCHANGED tensor

\* getIndices(index): the coordinate of a linear index under the current strides.
RECURSIVE getIndicesLoop(_, _, _)
getIndicesLoop(ticks, index, i) ==
  IF i >= Len(strides) THEN ticks
  ELSE LET tick == index \div strides[i + 1]
       IN getIndicesLoop([ticks EXCEPT ![i + 1] = ToUint32(tick)],
                         index - tick * strides[i + 1], i + 1)

getIndices(index) == getIndicesLoop(ZeroArray(Len(strides)), index, 0)

\* getIndex(indices): the linear index of a coordinate under the current strides.
RECURSIVE getIndexLoop(_, _, _)
getIndexLoop(indices, index, i) ==
  IF i < 0 THEN index
  ELSE getIndexLoop(indices, index + indices[i + 1] * strides[i + 1], i - 1)

getIndex(indices) == getIndexLoop(indices, 0, Len(strides) - 1)

\* dimOffset without the "% s" on the position within the slice.
dimOffsetNoMod(n, dim) ==
  (shape[dim + 1] * strides[dim + 1] * (n \div strides[dim + 1]) + n) % dataSize

\* dimOffset(n, dim)
dimOffset(n, dim) ==
  LET v == shape[dim + 1]
      s == strides[dim + 1]
  IN (v * s * (n \div s) + (n % s)) % dataSize

\* The coordinates within the current shape.
Coordinates ==
  {Tuple(c) : c \in {b \in [1..Len(shape) -> 0..(MaxIter - 1)] :
                       \A d \in 1..Len(shape) : b[d] < shape[d]}}

\* The linear indices within the current size.
Indexes == {i \in 0..(MaxIter - 1) : i < size}

GetIndices(index) ==
  /\ alive
  /\ size <= MaxIter
  /\ call' = [NoCall EXCEPT !.op = "getIndices", !.index = index]
  /\ ret' = [NoRet EXCEPT !.ticks = getIndices(index)]
  /\ UNCHANGED <<tensor, view>>

GetIndex(indices) ==
  /\ alive
  /\ size <= MaxIter
  /\ call' = [NoCall EXCEPT !.op = "getIndex", !.indices = indices]
  /\ ret' = [NoRet EXCEPT !.index = getIndex(indices)]
  /\ UNCHANGED <<tensor, view>>

\* One call of an iterator: its four arguments.
Visit(index, dimIndex, dimLength) ==
  [value |-> Read(data, index), index |-> index,
   dimIndex |-> dimIndex, dimLength |-> dimLength]

\* _forEach(iterator): the calls of the iterator, in order.
_forEach ==
  Tuple([k \in 1..size |-> LET i == k - 1
                               index == i % dataSize
                           IN Visit(index, -1, size)])

\* The number of times a loop "for (i = 0; i < q; i++)" runs when q = a / b
\* is a quotient of positive integers that need not be whole.
LoopCount(a, b) == (a + b - 1) \div b

\* forEach(dim, iterator) past assertDim: the calls of the iterator, in order.
forEachDim(dim) ==
  LET stride == strides[dim + 1]
      values == shape[dim + 1]
      interations == LoopCount(dataSize, values)
  IN Tuple([k \in 1..(interations * values) |->
              LET i == (k - 1) \div values
                  v == (k - 1) % values
                  offset == dimOffset(i, dim)
                  index == offset + v * stride
              IN Visit(index, i, values)])

\* forEach(iterator)
ForEach ==
  /\ alive
  /\ size <= MaxIter
  /\ LET visits == _forEach
     IN /\ call' = [NoCall EXCEPT !.op = "forEach"]
        /\ ret' = [NoRet EXCEPT !.visits = visits,
                                !.reads = Tuple([k \in 1..Len(visits) |-> visits[k].index])]
  /\ UNCHANGED <<tensor, view>>

\* forEach(dim, iterator)
ForEachDim(dim) ==
  /\ alive
  /\ size <= MaxIter
  /\ LET err == assertDim(dim, Len(shape))
         visits == IF err = "none" THEN forEachDim(dim) ELSE <<>>
     IN /\ call' = [NoCall EXCEPT !.op = "forEachDim", !.dim = dim]
        /\ ret' = [NoRet EXCEPT !.err = err, !.visits = visits,
                                !.reads = Tuple([k \in 1..Len(visits) |-> visits[k].index])]
  /\ UNCHANGED <<tensor, view>>

\* The loop of _reduce: acc after folding the elements i .. size-1.
RECURSIVE _reduceLoop(_, _, _)
_reduceLoop(r, acc, i) ==
  IF i >= size THEN acc
  ELSE _reduceLoop(r, reducer(r, acc, Read(data, i % dataSize)), i + 1)

\* _reduce(reducer, mapper): the tensor returned.
_reduce(r, m) ==
  LET acc == _reduceLoop(r, Read(data, 0), 1)
  IN NewTensor(<<1>>, <<ToFloat(mapper(m, acc, size))>>)

\* The indices of data that _reduce reads, in order.
_reduceReads == Tuple([k \in 1..(IF size < 1 THEN 1 ELSE size) |->
                         IF k = 1 THEN 0 ELSE (k - 1) % dataSize])

\* reduce(reducer, mapper)
ReduceAll(r, m) ==
  /\ alive
  /\ size <= MaxIter
  /\ call' = [NoCall EXCEPT !.op = "reduce", !.reducer = r, !.mapper = m]
  /\ LET t == _reduce(r, m)
     IN ret' = [NoRet EXCEPT !.err = t.err, !.out = Some(t), !.reads = _reduceReads]
  /\ UNCHANGED <<tensor, view>>

\* arr[index] = val on a typed array: ignored outside 0..length-1.
Store(arr, index, val) ==
  IF index >= 0 /\ index < Len(arr) THEN [arr EXCEPT ![index + 1] = val] ELSE arr

\* The loop that fills outDims, keeping the reduced extent instead of writing 1.
RECURSIVE outDimsKeepExtent(_, _, _, _)
outDimsKeepExtent(outDims, dim, keepdim, i) ==
  IF i >= Len(shape) THEN outDims
  ELSE LET next ==
             IF i < dim THEN Store(outDims, i, shape[i + 1])
             ELSE IF i > dim
                  THEN Store(outDims, IF keepdim THEN i ELSE i - 1, shape[i + 1])
                  ELSE IF keepdim THEN Store(outDims, i, shape[i + 1]) ELSE outDims
       IN outDimsKeepExtent(next, dim, keepdim, i + 1)

\* The loop of reduce(dim, ...) that fills outDims.
RECURSIVE outDimsLoop(_, _, _, _)
outDimsLoop(outDims, dim, keepdim, i) ==
  IF i >= Len(shape) THEN outDims
  ELSE LET next ==
             IF i < dim THEN Store(outDims, i, shape[i + 1])
             ELSE IF i > dim
                  THEN Store(outDims, IF keepdim THEN i ELSE i - 1, shape[i + 1])
                  ELSE IF keepdim THEN Store(outDims, i, 1) ELSE outDims
       IN outDimsLoop(next, dim, keepdim, i + 1)

\* The inner loop of reduce(dim, ...): acc after folding positions v .. values-1.
RECURSIVE reduceDimLoop(_, _, _, _, _, _)
reduceDimLoop(r, acc, offset, stride, values, v) ==
  IF v >= values THEN acc
  ELSE reduceDimLoop(r, reducer(r, acc, Read(data, offset + v * stride)),
                     offset, stride, values, v + 1)

\* reduce(dim, keepdim, reducer, mapper) past assertDim: the tensor returned.
reduceDim(dim, keepdim, r, m) ==
  LET stride == strides[dim + 1]
      values == shape[dim + 1]
      len == Len(shape)
      outDims == outDimsLoop(ZeroArray(IF keepdim THEN len ELSE len - 1),
                             dim, keepdim, 0)
      outSize == size \div values
      output == Tuple([k \in 1..outSize |->
                         LET offset == dimOffset(k - 1, dim)
                             acc == reduceDimLoop(r, Read(data, offset), offset,
                                                  stride, values, 1)
                         IN ToFloat(mapper(m, acc, values))])
  IN NewTensor(outDims, output)

\* The indices of data that reduce(dim, ...) reads, in order.
reduceDimReads(dim) ==
  LET stride == strides[dim + 1]
      values == shape[dim + 1]
      outSize == size \div values
  IN Tuple([k \in 1..(outSize * values) |->
              dimOffset((k - 1) \div values, dim) + ((k - 1) % values) * stride])

\* reduce(dim, keepdim, reducer, mapper)
ReduceDim(dim, keepdim, r, m) ==
  /\ alive
  /\ size <= MaxIter
  /\ call' = [NoCall EXCEPT !.op = "reduceDim", !.dim = dim, !.keepdim = keepdim,
                            !.reducer = r, !.mapper = m]
  /\ LET err == assertDim(dim, Len(shape))
     IN IF err = "none"
        THEN LET t == reduceDim(dim, keepdim, r, m)
             IN ret' = [NoRet EXCEPT !.err = t.err, !.out = Some(t),
                                     !.reads = reduceDimReads(dim)]
        ELSE ret' = [NoRet EXCEPT !.err = err]
  /\ UNCHANGED <<tensor, view>>

\* A JavaScript array as a function from its defined indices.
EmptyArray == <<>>

\* temp[indices[0]]...[indices[len]] = val, creating the arrays on the way.
RECURSIVE NestedStore(_, _, _)
NestedStore(arr, indices, val) ==
  LET indice == indices[1]
  IN IF Len(indices) = 1 THEN (indice :> val) @@ arr
     ELSE LET temp == IF indice \in DOMAIN arr THEN arr[indice] ELSE EmptyArray
          IN (indice :> NestedStore(temp, Tail(indices), val)) @@ arr

\* The loop of toNestedArrays: arr after the iterations i .. size-1.
RECURSIVE toNestedArraysLoop(_, _)
toNestedArraysLoop(arr, i) ==
  IF i >= size THEN arr
  ELSE toNestedArraysLoop(
         NestedStore(arr, getIndices(i), Read(data, i % dataSize).v), i + 1)

\* toNestedArrays()
ToNestedArrays ==
  /\ alive
  /\ size <= MaxIter
  /\ call' = [NoCall EXCEPT !.op = "toNestedArrays"]
  /\ ret' = [NoRet EXCEPT !.nested = toNestedArraysLoop(EmptyArray, 0),
                          !.reads = Tuple([k \in 1..size |-> (k - 1) % dataSize])]
  /\ UNCHANGED <<tensor, view>>

Dims == (-1)..(MaxRank + 1)

\* Every call but expand.
Calls ==
  \/ \E s \in Shapes, n \in 0..MaxData : Construct(s, n)
  \/ Unexpand
  \/ \E index \in Indexes : GetIndices(index)
  \/ \E indices \in Coordinates : GetIndex(indices)
  \/ ForEach
  \/ \E dim \in Dims : ForEachDim(dim)
  \/ \E f \in Callbacks : ReduceAll(f.reducer, f.mapper)
  \/ \E dim \in Dims, keepdim \in BOOLEAN, f \in Callbacks :
       ReduceDim(dim, keepdim, f.reducer, f.mapper)
  \/ ToNestedArrays

Next ==
  \/ \E t \in Targets : Expand(t)
  \/ Calls

Spec == Init /\ [][Next]_vars

\* The same program called with expand arguments that are all positive and
\* describe a view within MaxIter.  The iteration operations act on the same
\* tensors and views as under Spec: the views left out are those over MaxIter.
NextPositive ==
  \/ \E t \in PositiveTargets : Expand(t)
  \/ Calls

SpecPositive == Init /\ [][NextPositive]_vars

\* ------------------------------------------- notions the claims are stated in

RECURSIVE Sum(_)
Sum(s) == IF s = <<>> THEN 0 ELSE s[1] + Sum(Tail(s))

Max(S) == CHOOSE x \in S : \A y \in S : y <= x

\* The stride convention: strides[last] = 1, strides[i] = strides[i+1] * shape[i+1].
Convention(sh, st) ==
  /\ Len(st) = Len(sh)
  /\ \A i \in 1..Len(sh) :
       st[i] = IF i = Len(sh) THEN 1 ELSE st[i + 1] * sh[i + 1]

ConventionStrides(sh) ==
  Tuple([i \in 1..Len(sh) |-> Product(SubSeq(sh, i + 1, Len(sh)))])

\* Row-major linear index of a coordinate, and the coordinate of a linear index.
RowMajorIndex(c, sh) ==
  Sum(Tuple([d \in 1..Len(sh) |-> c[d] * ConventionStrides(sh)[d]]))
RowMajorCoord(i, sh) ==
  Tuple([d \in 1..Len(sh) |-> (i \div ConventionStrides(sh)[d]) % sh[d]])

\* Every coordinate within a shape.
CoordinatesOf(sh) ==
  IF sh = <<>> THEN {<<>>}
  ELSE {Tuple(c) : c \in
          {b \in [1..Len(sh) -> 0..(Max({sh[d] : d \in 1..Len(sh)}) - 1)] :
             \A d \in 1..Len(sh) : b[d] < sh[d]}}

\* A shape or coordinate without its (0-based) position d, and with k put there.
RemoveAt(s, d) == SubSeq(s, 1, d) \o SubSeq(s, d + 2, Len(s))
InsertAt(s, d, k) == SubSeq(s, 1, d) \o <<k>> \o SubSeq(s, d + 1, Len(s))

\* Left-to-right fold of a non-empty sequence of values with a reducer.
RECURSIVE FoldFrom(_, _, _, _)
FoldFrom(r, acc, vals, k) ==
  IF k > Len(vals) THEN acc ELSE FoldFrom(r, reducer(r, acc, vals[k]), vals, k + 1)
FoldLeft(r, vals) == FoldFrom(r, vals[1], vals, 2)

\* The leaf of a nested array at a coordinate, or Undefined when there is none.
RECURSIVE NestedAt(_, _)
NestedAt(arr, c) ==
  IF c[1] \notin DOMAIN arr THEN Undefined
  ELSE IF Len(c) = 1 THEN Num(arr[c[1]])
  ELSE NestedAt(arr[c[1]], Tail(c))

ValidDim == call.dim >= 0 /\ call.dim < Len(shape)

\* ------------------------------------------------------------- claims

\* C8: construction fails with ShapeMismatch, yielding no tensor, exactly when
\* the data length differs from the product of the shape; otherwise the tensor
\* has size = |D|, nativeShape = S and native strides following the convention
\* strides[last] = 1, strides[i] = strides[i+1] * shape[i+1]; so
\* product(nativeShape) = data.length for every tensor that exists.
C8_Construction ==
  /\ call.op = "construct" =>
       /\ ret.err \in {"none", "ShapeMismatch"}
       /\ (ret.err = "ShapeMismatch") <=> (call.len # Product(call.shape))
       /\ ret.err = "ShapeMismatch" => ~alive
       /\ ret.err = "none" =>
            /\ alive
            /\ size = call.len
            /\ dataSize = call.len
            /\ data = Buffer(call.len)
            /\ dataShape = call.shape
  /\ alive =>
       /\ Product(dataShape) = Len(data)
       /\ Convention(dataShape, dataStrides)

C8_Witness ==
  /\ call.op = "construct"
  /\ ret.err = "none"
  /\ dataShape = <<2, 3>>
  /\ dataStrides = <<3, 1>>
  /\ size = 6

\* C2: on a plain tensor of shape S, reduce(d, false, combine) returns a tensor
\* of shape S-without-d whose element at row-major position i is the
\* left-to-right fold, for k ascending, of the input elements at the coordinate
\* obtained by decomposing i over the output shape and inserting k at position
\* d (passed through the mapper, the identity by default);
\* dimOffset(i, d) + k * stride[d] is getIndex of that coordinate, and the
\* slices partition the buffer.
C2_ReduceAlongDim ==
  (call.op = "reduceDim" /\ _shape = Null /\ ~call.keepdim /\ ValidDim) =>
    LET d == call.dim
        S == dataShape
        outShape == RemoveAt(S, d)
        out == ret.out[1]
        values == S[d + 1]
    IN /\ ret.err = "none"
       /\ out.dataShape = outShape
       /\ Len(out.data) = Product(outShape)
       /\ \A i \in 0..(Product(outShape) - 1) :
            LET c == RowMajorCoord(i, outShape)
                elems == Tuple([k \in 1..values |->
                            data[RowMajorIndex(InsertAt(c, d, k - 1), S) + 1]])
            IN /\ out.data[i + 1]
                    = mapper(call.mapper, FoldLeft(call.reducer, elems), values)
               /\ \A k \in 0..(values - 1) :
                    /\ dimOffset(i, d) + k * strides[d + 1]
                         = getIndex(InsertAt(c, d, k))
                    /\ ret.reads[i * values + k + 1] = getIndex(InsertAt(c, d, k))
       /\ Len(ret.reads) = dataSize
       /\ {ret.reads[k] : k \in 1..Len(ret.reads)} = 0..(dataSize - 1)

C2_Witness ==
  /\ call.op = "reduceDim"
  /\ _shape = Null
  /\ dataShape = <<2, 2>>
  /\ call.dim = 0
  /\ ~call.keepdim
  /\ call.reducer = "add"
  /\ call.mapper = "id"
  /\ ret.out[1].dataShape = <<2>>
  /\ ret.out[1].data = <<Num(4), Num(6)>>

\* C9: for every tensor state and valid dim d, reduce(d, true, ...) and
\* reduce(d, false, ...) both succeed, return buffers of identical contents and
\* of length size / shape[d], and have output shapes equal to the current shape
\* with extent d set to 1 (keepDim), respectively with dimension d removed.
C9_KeepDim ==
  (call.op = "reduceDim" /\ ValidDim) =>
    LET d == call.dim
        out == ret.out[1]
        other == reduceDim(d, ~call.keepdim, call.reducer, call.mapper)
        kept == InsertAt(RemoveAt(shape, d), d, 1)
        removed == RemoveAt(shape, d)
    IN /\ ret.err = "none"
       /\ other.err = "none"
       /\ size % shape[d + 1] = 0
       /\ Len(out.data) = size \div shape[d + 1]
       /\ out.data = other.data
       /\ out.dataShape = IF call.keepdim THEN kept ELSE removed
       /\ other.dataShape = IF call.keepdim THEN removed ELSE kept

C9_Witness ==
  /\ call.op = "reduceDim"
  /\ call.keepdim
  /\ _shape # Null
  /\ Len(shape) = 3
  /\ call.dim = 1
  /\ shape[2] = 2
  /\ ret.err = "none"
  /\ ret.out[1].dataShape = <<shape[1], 1, shape[3]>>

\* The native coordinate a view coordinate stands for under broadcasting: the
\* added leading dimensions dropped, and 0 wherever the native extent is 1.
NativeCoordinate(c) ==
  LET added == Len(shape) - Len(dataShape)
  IN Tuple([d \in 1..Len(dataShape) |->
              IF dataShape[d] = 1 THEN 0 ELSE c[d + added]])

BroadcastValue(c) == data[RowMajorIndex(NativeCoordinate(c), dataShape) + 1]

\* C1: under a view installed by a successful expand(T), the value observed at
\* every logical coordinate C (the i-th value delivered by whole-tensor forEach
\* and the leaf at C in toNestedArrays, i the row-major index of C under T) is
\* the native element at the coordinate obtained from C by dropping the added
\* leading dimensions and setting to 0 every dimension whose native extent is 1.
C1_BroadcastRepeat ==
  (_shape # Null /\ Len(shape) >= Len(dataShape)
     /\ call.op \in {"forEach", "toNestedArrays"}) =>
    \A c \in CoordinatesOf(shape) :
      LET i == RowMajorIndex(c, shape)
      IN IF call.op = "forEach"
         THEN /\ i + 1 \in DOMAIN ret.visits
              /\ ret.visits[i + 1].value = BroadcastValue(c)
         ELSE NestedAt(ret.nested, c) = BroadcastValue(c)

\* What does hold of the view: the i-th value is the native element i mod
\* nativeSize, which is the broadcast value when every stretched or added
\* dimension comes before every native dimension of extent above 1.
C1_LeadingRepeat ==
  (_shape # Null /\ Len(shape) >= Len(dataShape) /\ call.op = "forEach") =>
    /\ \A k \in 1..Len(ret.visits) :
         ret.visits[k].value = data[((k - 1) % dataSize) + 1]
    /\ (\A d \in 1..Len(dataShape) :
          dataShape[d] = 1 => \A e \in 1..d : dataShape[e] = 1) =>
         \A c \in CoordinatesOf(shape) :
           ret.visits[RowMajorIndex(c, shape) + 1].value = BroadcastValue(c)

IterationOps == {"forEach", "forEachDim", "reduce", "reduceDim", "toNestedArrays"}

\* C3: every index used to read data by forEach(iterator), forEach(dim,
\* iterator), reduce(combine), reduce(dim, keepDim, combine) and toNestedArrays
\* lies in [0, nativeSize); in the per-dimension forms the index read (and
\* passed to the iterator) is (dimOffset(i, dim) + v * stride[dim]) mod
\* nativeSize.
C3_ReadsWithinBuffer ==
  (call.op \in IterationOps /\ ret.err = "none") =>
    /\ \A k \in 1..Len(ret.reads) : ret.reads[k] >= 0 /\ ret.reads[k] < dataSize
    /\ call.op \in {"forEachDim", "reduceDim"} =>
         LET values == shape[call.dim + 1]
         IN \A k \in 1..Len(ret.reads) :
              ret.reads[k] =
                (dimOffset((k - 1) \div values, call.dim)
                   + ((k - 1) % values) * strides[call.dim + 1]) % dataSize
    /\ \A k \in 1..Len(ret.visits) : ret.visits[k].value.k = "num"

\* What does hold: the reads of a plain tensor are all within the buffer.
C3_PlainReadsWithinBuffer ==
  (call.op \in IterationOps /\ ret.err = "none" /\ _shape = Null) =>
    \A k \in 1..Len(ret.reads) : ret.reads[k] >= 0 /\ ret.reads[k] < dataSize

\* C4: forEach(iterator) on a tensor of current size N calls the iterator
\* exactly N times, for the logical indices 0..N-1 in increasing order, and
\* forEach(dim, iterator) with a valid dim runs exactly N / shape[dim] slices
\* (slice index ascending) of shape[dim] calls each (position ascending), so N
\* calls too; plain or under a view.
C4_VisitsWholeTensor ==
  /\ call.op = "forEach" =>
       /\ Len(ret.visits) = size
       /\ \A k \in 1..Len(ret.visits) :
            /\ ret.visits[k].index = (k - 1) % dataSize
            /\ ret.visits[k].dimIndex = -1
            /\ ret.visits[k].dimLength = size
  /\ (call.op = "forEachDim" /\ ValidDim) =>
       LET values == shape[call.dim + 1]
       IN /\ ret.err = "none"
          /\ Len(ret.visits) = size
          /\ \A k \in 1..Len(ret.visits) :
               /\ ret.visits[k].dimIndex = (k - 1) \div values
               /\ ret.visits[k].dimLength = values
               /\ ret.visits[k].index
                    = dimOffset((k - 1) \div values, call.dim)
                        + ((k - 1) % values) * strides[call.dim + 1]
          /\ {ret.visits[k].dimIndex : k \in 1..Len(ret.visits)}
               = 0..((size \div values) - 1)

\* What does hold: the same, for the whole-tensor form and for a plain tensor.
C4_PlainVisitsWholeTensor ==
  (_shape = Null) => C4_VisitsWholeTensor

\* The native extent aligned with the i-th extent from the end of a target.
NativeExtent(i) ==
  IF Len(dataShape) - i >= 0 THEN dataShape[Len(dataShape) - i + 1] ELSE 1

Incompatible(T) ==
  \E i \in 1..Len(T) : NativeExtent(i) # 1 /\ T[Len(T) - i + 1] # NativeExtent(i)
BelowOne(T) == \E j \in 1..Len(T) : T[j] < 1

\* C5: expand(target) fails with IncompatibleExpand whenever some
\* trailing-aligned pair has nativeExtent # 1 and targetExtent # nativeExtent,
\* fails with InvalidExpandSize whenever some target extent is < 1 (zero or
\* negative), and succeeds otherwise; a failed expand leaves what the shape,
\* strides and size accessors return unchanged.  (Where both conditions hold,
\* either error is accepted.)
C5_ExpandValidation ==
  [][call'.op = "expand" =>
       LET T == call'.shape
       IN /\ (Incompatible(T) \/ BelowOne(T)) <=> (ret'.err # "none")
          /\ ret'.err = "IncompatibleExpand" => Incompatible(T)
          /\ ret'.err = "InvalidExpandSize" => BelowOne(T)
          /\ ret'.err \in {"none", "IncompatibleExpand", "InvalidExpandSize"}
          /\ ret'.err # "none" =>
               /\ shape' = shape
               /\ strides' = strides
               /\ size' = size]_vars

\* What does hold: the same with "< 1" read after the conversion of the
\* arguments to unsigned integers, which leaves zero alone and makes a negative
\* extent a large positive one.
C5_ExpandValidationUnsigned ==
  [][call'.op = "expand" =>
       LET T == Tuple([j \in 1..Len(call'.shape) |-> ToUint32(call'.shape[j])])
       IN /\ (Incompatible(T) \/ BelowOne(T)) <=> (ret'.err # "none")
          /\ ret'.err = "IncompatibleExpand" => Incompatible(T)
          /\ ret'.err = "InvalidExpandSize" => BelowOne(T)
          /\ ret'.err # "none" =>
               /\ shape' = shape
               /\ strides' = strides
               /\ size' = size]_vars

\* C6: after any sequence of calls, data, nativeShape, nativeStrides and
\* nativeSize are as constructed; the accessors return the native triple if no
\* expand has succeeded since the last unexpand, otherwise the triple (T,
\* strides derived from T by the convention, product(T)) of the most recent
\* successful expand(T); forEach and reduce never change the view.
C6_ViewStateMachine ==
  [][alive =>
       /\ <<data, dataShape, dataStrides, dataSize>>'
            = <<data, dataShape, dataStrides, dataSize>>
       /\ IF call'.op = "expand" /\ ret'.err = "none"
          THEN /\ shape' = call'.shape
               /\ strides' = ConventionStrides(call'.shape)
               /\ size' = Product(call'.shape)
          ELSE IF call'.op = "unexpand"
          THEN /\ shape' = dataShape
               /\ strides' = dataStrides
               /\ size' = dataSize
          ELSE /\ shape' = shape
               /\ strides' = strides
               /\ size' = size]_vars

\* What does hold: the same for the expand calls whose extents are all
\* positive.
C6_ViewStateMachinePositive ==
  [][alive =>
       /\ <<data, dataShape, dataStrides, dataSize>>'
            = <<data, dataShape, dataStrides, dataSize>>
       /\ IF call'.op = "expand" /\ ret'.err = "none"
          THEN (\A j \in 1..Len(call'.shape) : call'.shape[j] >= 1) =>
                 /\ shape' = call'.shape
                 /\ strides' = ConventionStrides(call'.shape)
                 /\ size' = Product(call'.shape)
          ELSE IF call'.op = "unexpand"
          THEN /\ shape' = dataShape
               /\ strides' = dataStrides
               /\ size' = dataSize
          ELSE /\ shape' = shape
               /\ strides' = strides
               /\ size' = size]_vars

\* C7: in every tensor state, plain or view, with current shape S: for every
\* coordinate C within S, getIndices(getIndex(C)) = C; for every linear index L
\* in 0..size-1, getIndex(getIndices(L)) = L and every component of
\* getIndices(L) is within its extent.
C7_IndexRoundTrip ==
  alive =>
    /\ \A c \in CoordinatesOf(shape) : getIndices(getIndex(c)) = c
    /\ \A L \in 0..(size - 1) :
         /\ getIndex(getIndices(L)) = L
         /\ \A d \in 1..Len(shape) : getIndices(L)[d] < shape[d]
    /\ call.op = "getIndices" => getIndex(ret.ticks) = call.index
    /\ call.op = "getIndex" => getIndices(ret.index) = call.indices

\* What does hold: the round trip in every state whose view, if any, was
\* installed by an expand of positive extents (no stride has wrapped).
C7_IndexRoundTripUnwrapped ==
  (alive /\ Convention(shape, strides)) => C7_IndexRoundTrip

\* A two-level nested array given by its rows.
Nested2(rows) ==
  [i \in 0..(Len(rows) - 1) |->
     [j \in 0..(Len(rows[i + 1]) - 1) |-> rows[i + 1][j + 1]]]

Scenario1 ==
  /\ call.op = "toNestedArrays"
  /\ _shape = Null
  /\ dataShape = <<2, 3>>
  /\ data = Buffer(6)

PlacedAtIndices ==
  call.op = "toNestedArrays" =>
    /\ \A i \in 0..(size - 1) :
         NestedAt(ret.nested, getIndices(i)) = data[(i % dataSize) + 1]
    /\ \A i, j \in 0..(size - 1) : getIndices(i) = getIndices(j) => i = j

\* C10, as stated: Tensor([2,3], [1,2,3,4,5,6]).toNestedArrays() yields
\* [[1,4],[2,5],[3,6]]; in general the value data[i mod nativeSize] is at the
\* nested position getIndices(i) for every logical index i.
C10_SnapshotAsStated ==
  /\ Scenario1 => ret.nested = Nested2(<<<<1, 4>>, <<2, 5>>, <<3, 6>>>>)
  /\ PlacedAtIndices

\* C10, amended: the snapshot is [[1,2,3],[4,5,6]] (the strides of shape [2,3]
\* are [3,1]); the general statement is unchanged.
C10_SnapshotRowMajor ==
  /\ Scenario1 => ret.nested = Nested2(<<<<1, 2, 3>>, <<4, 5, 6>>>>)
  /\ PlacedAtIndices

C10_Witness ==
  /\ Scenario1
  /\ strides = <<3, 1>>
  /\ ret.nested[1][0] = 4

====
